---- MODULE Spec2Model ----
(***************************************************************************)
(* Probabilistic reconciliation samplers of hierarchicalforecast           *)
(* (probabilistic_methods.py): Normality, Bootstrap and PERMBU.            *)
(*                                                                         *)
(* Arrays are sequences (a matrix is a sequence of rows, a samples tensor  *)
(* is series x horizon x samples), indexed from 1 where numpy indexes from *)
(* 0.  Values are integers.  A pseudorandom generator is a small           *)
(* deterministic state machine: a state, a step function and the value     *)
(* read off the state after each step.  numpy's process-wide generator     *)
(* (the np.random functions) is np_random; a np.random.RandomState(seed)   *)
(* built inside a call is a local of that call.                            *)
(***************************************************************************)
EXTENDS Integers, Sequences, FiniteSets, TLC

VARIABLES
    obj,        \* obj[o]: the fields of sampler instance o (cls = "none" before construction)
    ret,        \* ret[o]: what the last call on instance o returned or raised, with its locals
    res,        \* res[o]: the caller's result mapping handed to get_prediction_*
    ncalls,     \* ncalls[o]: the calls counted on o (Normality.get_samples, PERMBU's methods)
    left,       \* left[o]: the state in which the last call on o left the generator it drew from
    np_random   \* state of numpy's process-wide generator

vars == <<obj, ret, ncalls, left, res, np_random>>

---------------------------------------------------------------------------
(* Bounds of the model *)

MaxT == 4          \* in-sample columns
MaxH == 2          \* forecast horizon
MaxSamples == 2    \* num_samples
MaxCalls == 2      \* counted calls on one instance

---------------------------------------------------------------------------
(* Arrays *)

NaN == 9999

\* an array holding its values: the sequence s with its elements computed once
Arr(s) == s \o <<>>

Min(a, b) == IF a < b THEN a ELSE b

RECURSIVE SumSeq(_)
SumSeq(s) == IF Len(s) = 0 THEN 0 ELSE s[1] + SumSeq(Tail(s))

Rows(M) == Len(M)
Cols(M) == IF Len(M) = 0 THEN 0 ELSE Len(M[1])
Shape(M) == <<Rows(M), Cols(M)>>

\* a - b on floats: NaN is absorbing
Sub(a, b) == IF a = NaN \/ b = NaN THEN NaN ELSE a - b
Add(a, b) == IF a = NaN \/ b = NaN THEN NaN ELSE a + b

MatSub(A, B) == Arr([i \in 1..Rows(A) |-> Arr([j \in 1..Cols(A) |-> Sub(A[i][j], B[i][j])])])
MatAdd(A, B) == Arr([i \in 1..Rows(A) |-> Arr([j \in 1..Cols(A) |-> Add(A[i][j], B[i][j])])])

\* A @ B, defined when Cols(A) = Rows(B)
MatMul(A, B) ==
    Arr([i \in 1..Rows(A) |-> Arr([j \in 1..Cols(B) |->
        SumSeq(Arr([k \in 1..Cols(A) |-> A[i][k] * B[k][j]]))])])

Transpose(A) == Arr([j \in 1..Cols(A) |-> Arr([i \in 1..Rows(A) |-> A[i][j]])])

\* a[lo:hi] of Python on a sequence: positions lo..hi-1 (0-based), cut at the end
Slice(s, lo, hi) == SubSeq(s, lo + 1, Min(hi, Len(s)))

\* M[:, lo:hi]
ColSlice(M, lo, hi) == Arr([i \in 1..Rows(M) |-> Slice(M[i], lo, hi)])

\* M[:, idx] for a sequence idx of 0-based column indexes
TakeCols(M, idx) == Arr([i \in 1..Rows(M) |-> Arr([j \in 1..Len(idx) |-> M[i][idx[j] + 1]])])

\* the ascending sequence of the elements of a finite set of integers
RECURSIVE SortedSeq(_)
SortedSeq(X) ==
    IF X = {} THEN <<>>
    ELSE LET m == CHOOSE x \in X : \A y \in X : x <= y
         IN <<m>> \o SortedSeq(X \ {m})

\* residuals[:, np.isnan(residuals).sum(axis=0) == 0]
\* as CompleteCols, looking at the first series only
CompleteCols_first_row(M) == SortedSeq({j \in 1..Cols(M) : M[1][j] # NaN})
CompleteCols(M) == SortedSeq({j \in 1..Cols(M) : \A i \in 1..Rows(M) : M[i][j] # NaN})
DropNaNColumns(M) ==
    LET keep == CompleteCols(M)
    IN Arr([i \in 1..Rows(M) |-> Arr([j \in 1..Len(keep) |-> M[i][keep[j]]])])

---------------------------------------------------------------------------
(* Pseudorandom generators *)

\* np.random.RandomState(seed): the generator state a seed sets
RandomState(seed) == seed % 17

\* one step of a generator
RngStep(s) == (3 * s + 1) % 17

\* the state after k steps
RECURSIVE RngSteps(_, _)
RngSteps(s, k) == IF k = 0 THEN s ELSE RngSteps(RngStep(s), k - 1)

\* the state after k draws; the k-th raw draw from state s is this state.
\* Every state returns to itself after 16 steps.
RngAfter(s, k) == RngSteps(s, k % 16)

\* a standard normal variate read off a raw draw
StdNormal(raw) == (raw % 3) - 1

\* state.normal(loc, scale, size=n) from generator state s
Normal(s, loc, scale, n) == Arr([k \in 1..n |-> loc + scale * StdNormal(RngAfter(s, k))])

\* state.choice(a, size=n), a > 0, from generator state s: n indexes in 0..a-1
Choice(s, a, n) == Arr([k \in 1..n |-> RngAfter(s, k) % a])

\* swap positions i and j of a sequence
Swap(p, i, j) == Arr([p EXCEPT ![i] = p[j], ![j] = p[i]])

\* permutation(arange(n)) from generator state s: Fisher-Yates from the last
\* position down, one draw per position; i is the position being filled
RECURSIVE Shuffle(_, _, _)
Shuffle(p, s, i) ==
    IF i <= 1 THEN p
    ELSE LET s1 == RngStep(s)
         IN Shuffle(Swap(p, i, (s1 % i) + 1), s1, i - 1)

Permutation(s, n) == Shuffle(Arr([k \in 1..n |-> k - 1]), s, n)
PermutationDraws(n) == IF n <= 1 THEN 0 ELSE n - 1

---------------------------------------------------------------------------
(* Inputs the callers hand to the samplers *)

\* summing matrices with their tags (the row indexes of each level, top level first)
Flat    == [S |-> << <<1,1>>, <<1,0>>, <<0,1>> >>,
            tags |-> << {1}, {2,3} >>]
Deep    == [S |-> << <<1,1,1>>, <<1,1,0>>, <<0,0,1>>, <<1,0,0>>, <<0,1,0>>, <<0,0,1>> >>,
            tags |-> << {1}, {2,3}, {4,5,6} >>]
\* Deep with the two middle rows in the other order
Crossed == [S |-> << <<1,1,1>>, <<0,0,1>>, <<1,1,0>>, <<1,0,0>>, <<0,1,0>>, <<0,0,1>> >>,
            tags |-> << {1}, {2,3}, {4,5,6} >>]
\* overlapping groups: the middle bottom series belongs to both middle rows
Overlap == [S |-> << <<1,1,1>>, <<1,1,0>>, <<0,1,1>>, <<1,0,0>>, <<0,1,0>>, <<0,0,1>> >>,
            tags |-> << {1}, {2,3}, {4,5,6} >>]

Trees == {Flat, Deep, Crossed}
Hierarchies == Trees \cup {Overlap}

\* bottom-up reconciliation matrix of S: selects the bottom rows
BottomUpP(S) ==
    Arr([b \in 1..Cols(S) |->
        Arr([i \in 1..Rows(S) |-> IF i = Rows(S) - Cols(S) + b THEN 1 ELSE 0])])
\* a reconciliation matrix that hands the top row to the first bottom series and
\* keeps the other bottom rows
TopFirstP(S) ==
    Arr([b \in 1..Cols(S) |-> Arr([i \in 1..Rows(S) |->
        IF b = 1 THEN (IF i = 1 THEN 1 ELSE 0)
        ELSE (IF i = Rows(S) - Cols(S) + b THEN 1 ELSE 0)])])
Projections(S) == {BottomUpP(S), TopFirstP(S)}

\* point forecasts and standard deviations, base x horizon
Forecasts(n, h) == Arr([i \in 1..n |-> Arr([t \in 1..h |-> 10 * i + t])])
Sigmas(n, h) == Arr([i \in 1..n |-> Arr([t \in 1..h |-> i])])

\* one in-sample column of n series
\* entry of series i in column j: the columns alternate between two shapes,
\* starting with the one of parity first
Entry(i, j, first) ==
    IF (j + first) % 2 = 0 THEN i + j
    ELSE IF i % 2 = 1 THEN 0 - (i + j) ELSE 2 * i + j
\* in-sample actuals: at most MaxT columns, at most one of which (column gap,
\* 0 for none) has a missing value, in the second series only
Insamples(n, firsts) ==
    { Arr([i \in 1..n |-> Arr([j \in 1..T |->
          IF j = gap THEN (IF i = 2 THEN NaN ELSE 0) ELSE Entry(i, j, first)])]) :
        T \in 0..MaxT, gap \in 0..MaxT, first \in firsts }
\* in-sample fitted values of the same shape
Fitted(y_insample) ==
    Arr([i \in 1..Rows(y_insample) |-> Arr([j \in 1..Cols(y_insample) |-> 1])])

Seeds == {0, 1}
SampleCounts == 1..MaxSamples
\* the sample counts given to a constructor
DefaultCounts == {1, MaxSamples}
Horizons == 1..MaxH

---------------------------------------------------------------------------
(* What a call returns or raises *)

NoState == 0 - 1
\* Python's None where a sample count is expected
None == 0 - 2
NoCall == [op |-> "none"]
\* an exception e raised by op, its generator left in state s
Raise(op, e, s) == [op |-> op, err |-> e, state |-> s]
Unbuilt == [cls |-> "none"]
Built(o) == obj[o].cls # "none"
CallerRes == (<<"mean", 0>> :> "reconciled point forecasts")

\* numpy broadcasting of two matrix shapes
BroadcastOK(A, B) ==
    /\ Rows(A) = Rows(B) \/ Rows(A) = 1 \/ Rows(B) = 1
    /\ Cols(A) = Cols(B) \/ Cols(A) = 1 \/ Cols(B) = 1
BIdx(k, len) == IF len = 1 THEN 1 ELSE k
Max(a, b) == IF a > b THEN a ELSE b
BroadcastAdd(A, B) ==
    Arr([i \in 1..(IF Rows(A) = 1 THEN Rows(B) ELSE Rows(A)) |->
     Arr([j \in 1..(IF Cols(A) = 1 THEN Cols(B) ELSE Cols(A)) |->
        Add(A[BIdx(i, Rows(A))][BIdx(j, Cols(A))], B[BIdx(i, Rows(B))][BIdx(j, Cols(B))])])])

\* the ascending sort of a sequence
RECURSIVE Insert(_, _)
Insert(x, s) ==
    IF Len(s) = 0 THEN <<x>>
    ELSE IF x <= s[1] THEN <<x>> \o s ELSE <<s[1]>> \o Insert(x, Tail(s))
RECURSIVE Sorted(_)
Sorted(s) == IF Len(s) = 0 THEN <<>> ELSE Insert(s[1], Sorted(Tail(s)))

\* np.quantile(x, num/den) with linear interpolation, times den
QuantileTimes(x, num, den) ==
    LET srt == Sorted(x)
        n == Len(x)
        lo == (num * (n - 1)) \div den
        rem == (num * (n - 1)) % den
        hi == Min(lo + 1, n - 1)
    IN srt[lo + 1] * den + rem * (srt[hi + 1] - srt[lo + 1])

\* np.quantile(samples, num/den, axis=2), times den
QuantileAxis2(samples, num, den) ==
    Arr([i \in 1..Len(samples) |-> Arr([t \in 1..Len(samples[i]) |->
        QuantileTimes(samples[i][t], num, den)])])

LevelSets == { <<80, 95>> }
QuantileSets == { <<10, 50, 90>> }

---------------------------------------------------------------------------
(* Bootstrap *)

\* Bootstrap.__init__
Bootstrap_init(o, S, P, y_hat, y_insample, y_hat_insample, num_samples, seed) ==
    /\ ~Built(o)
    /\ obj' = [obj EXCEPT ![o] =
                [cls |-> "Bootstrap", S |-> S, P |-> P, y_hat |-> y_hat,
                 y_insample |-> y_insample, y_hat_insample |-> y_hat_insample,
                 num_samples |-> num_samples, seed |-> seed]]
    /\ UNCHANGED <<ret, ncalls, left, res, np_random>>

\* as Bootstrap_sample_idx, with the last complete block's start counted too
Bootstrap_sample_idx_inclusive(T, h) == IF T - h + 1 < 0 THEN 0 ELSE T - h + 1

\* np.arange(residuals.shape[1] - h): the number of start indexes 0..k-1
Bootstrap_sample_idx(T, h) == IF T - h < 0 THEN 0 ELSE T - h

\* Bootstrap.get_samples
Bootstrap_get_samples(self, num_samples) ==
    LET op == "get_samples"
        residuals == DropNaNColumns(MatSub(self.y_insample, self.y_hat_insample))
        h == Cols(self.y_hat)
        sample_idx == Bootstrap_sample_idx(Cols(residuals), h)
        state == RandomState(self.seed)
        raised == [op |-> op, err |-> "ValueError", n |-> num_samples, state |-> state]
    IN
    IF sample_idx = 0 THEN raised      \* choice from an empty array
    ELSE
    LET samples_idx == Choice(state, sample_idx, num_samples)
        blocks == Arr([k \in 1..num_samples |->
                     ColSlice(residuals, samples_idx[k], samples_idx[k] + h)])
    IN
    IF \E k \in 1..num_samples : ~BroadcastOK(self.y_hat, blocks[k])
    THEN raised
    ELSE
    LET paths == Arr([k \in 1..num_samples |-> BroadcastAdd(self.y_hat, blocks[k])])
    IN
    IF \E k, l \in 1..num_samples : Shape(paths[k]) # Shape(paths[l])
    THEN raised      \* ragged list of paths
    ELSE IF Cols(self.S) # Rows(self.P) THEN raised
    ELSE
    LET SP == MatMul(self.S, self.P)
    IN
    IF Cols(SP) # Rows(paths[1]) THEN raised
    ELSE
    LET rec == Arr([k \in 1..num_samples |-> MatMul(SP, paths[k])])
    IN [op |-> op, err |-> "none", n |-> num_samples, samples_idx |-> samples_idx,
        state |-> RngAfter(state, num_samples),
        samples |-> Arr([i \in 1..Rows(SP) |-> Arr([t \in 1..Cols(paths[1]) |->
                        Arr([k \in 1..num_samples |-> rec[k][i][t]])])])]

\* the body shared by Bootstrap.get_prediction_levels and PERMBU.get_prediction_levels
PredictionLevels(r, samples, level) ==
    LET lo == Arr([k \in 1..Len(level) |-> QuantileAxis2(samples, 100 - level[k], 200)])
        hi == Arr([k \in 1..Len(level) |-> QuantileAxis2(samples, 100 + level[k], 200)])
        written == [key \in { <<"lo", level[k]>> : k \in 1..Len(level) }
                          \cup { <<"hi", level[k]>> : k \in 1..Len(level) } |->
                        LET k == CHOOSE k \in 1..Len(level) : level[k] = key[2]
                        IN IF key[1] = "lo" THEN lo[k] ELSE hi[k]]
    IN written @@ r

\* the body shared by Bootstrap.get_prediction_quantiles and PERMBU.get_prediction_quantiles
PredictionQuantiles(r, samples, quantiles) ==
    LET sample_quantiles == Arr([q \in 1..Len(quantiles) |->
                                QuantileAxis2(samples, quantiles[q], 100)])
    IN (<<"quantiles", 0>> :>
          Arr([i \in 1..Len(samples) |-> Arr([t \in 1..Len(samples[i]) |->
              Arr([q \in 1..Len(quantiles) |-> sample_quantiles[q][i][t]])])])) @@ r

Bootstrap_GetSamples(o, num_samples) ==
    /\ obj[o].cls = "Bootstrap"
    /\ LET got == Bootstrap_get_samples(obj[o], num_samples)
       IN /\ ret' = [ret EXCEPT ![o] = got]
          /\ left' = [left EXCEPT ![o] = got.state]
    /\ UNCHANGED <<obj, ncalls, res, np_random>>

\* Bootstrap.get_prediction_levels
Bootstrap_GetPredictionLevels(o, level) ==
    /\ obj[o].cls = "Bootstrap"
    /\ LET got == Bootstrap_get_samples(obj[o], obj[o].num_samples)
       IN /\ IF got.err # "none"
             THEN /\ ret' = [ret EXCEPT ![o] = Raise("get_prediction_levels", got.err, got.state)]
                  /\ res' = res
             ELSE /\ res' = [res EXCEPT ![o] = PredictionLevels(res[o], got.samples, level)]
                  /\ ret' = [ret EXCEPT ![o] =
                               [op |-> "get_prediction_levels", err |-> "none", state |-> got.state]]
          /\ left' = [left EXCEPT ![o] = got.state]
    /\ UNCHANGED <<obj, ncalls, np_random>>

\* Bootstrap.get_prediction_quantiles
Bootstrap_GetPredictionQuantiles(o, quantiles) ==
    /\ obj[o].cls = "Bootstrap"
    /\ LET got == Bootstrap_get_samples(obj[o], obj[o].num_samples)
       IN /\ IF got.err # "none"
             THEN /\ ret' = [ret EXCEPT ![o] = Raise("get_prediction_quantiles", got.err, got.state)]
                  /\ res' = res
             ELSE /\ res' = [res EXCEPT ![o] = PredictionQuantiles(res[o], got.samples, quantiles)]
                  /\ ret' = [ret EXCEPT ![o] =
                               [op |-> "get_prediction_quantiles", err |-> "none", state |-> got.state]]
          /\ left' = [left EXCEPT ![o] = got.state]
    /\ UNCHANGED <<obj, ncalls, np_random>>

\* the instances of Insts before construction, each with its caller's mapping
InitInstances(Insts) ==
    /\ obj = [o \in Insts |-> Unbuilt]
    /\ ret = [o \in Insts |-> NoCall]
    /\ res = [o \in Insts |-> CallerRes]
    /\ left = [o \in Insts |-> NoState]
    /\ ncalls = [o \in Insts |-> 0]

\* one Bootstrap instance and its caller
InitBootstrap == np_random = 0 /\ InitInstances({1})

BootstrapNew ==
    /\ ~Built(1)
    /\ \E H \in {Flat, Deep}, h \in Horizons, num_samples \in DefaultCounts, seed \in Seeds :
        \E P \in (IF H = Flat THEN Projections(H.S) ELSE {BottomUpP(H.S)}),
           y_insample \in Insamples(Rows(H.S), {0}) :
            Bootstrap_init(1, H.S, P, Forecasts(Rows(H.S), h), y_insample,
                         Fitted(y_insample), num_samples, seed)
BootstrapSamples == \E n \in SampleCounts : Bootstrap_GetSamples(1, n)
BootstrapLevels == \E level \in LevelSets : Bootstrap_GetPredictionLevels(1, level)
BootstrapQuantiles == \E q \in QuantileSets : Bootstrap_GetPredictionQuantiles(1, q)

NextBootstrap ==
    \/ BootstrapNew
    \/ BootstrapSamples
    \/ BootstrapLevels
    \/ BootstrapQuantiles

SpecBootstrap == InitBootstrap /\ [][NextBootstrap]_vars

---------------------------------------------------------------------------
(* PERMBU *)

\* utils.is_strictly_hierarchical: every bottom series has exactly one ancestor
\* in every level of tags
is_strictly_hierarchical(S, tags) ==
    \A lv \in 1..Len(tags) : \A b \in 1..Cols(S) :
        Cardinality({ i \in tags[lv] : S[i][b] # 0 }) = 1

PERMBU_fields(S, tags, y_hat, y_insample, y_hat_insample, sigmah, num_samples, seed) ==
    [cls |-> "PERMBU", S |-> S, tags |-> tags, y_hat |-> y_hat,
     y_insample |-> y_insample, y_hat_insample |-> y_hat_insample,
     sigmah |-> sigmah, num_samples |-> num_samples, seed |-> seed]

\* as PERMBU_init, with the fields assigned before the hierarchy is validated
PERMBU_init_fields_first(o, S, tags, y_hat, y_insample, y_hat_insample, sigmah, num_samples, seed) ==
    /\ ~Built(o)
    /\ obj' = [obj EXCEPT ![o] =
                PERMBU_fields(S, tags, y_hat, y_insample, y_hat_insample,
                              sigmah, num_samples, seed)]
    /\ ret' = IF ~is_strictly_hierarchical(S, tags)
              THEN [ret EXCEPT ![o] =
                     [op |-> "__init__", err |-> "ValueError", state |-> NoState,
                      S |-> S, tags |-> tags]]
              ELSE ret
    /\ UNCHANGED <<ncalls, left, res, np_random>>

\* PERMBU.__init__
PERMBU_init(o, S, tags, y_hat, y_insample, y_hat_insample, sigmah, num_samples, seed) ==
    /\ ~Built(o)
    /\ IF ~is_strictly_hierarchical(S, tags)
       THEN /\ ret' = [ret EXCEPT ![o] =
                        [op |-> "__init__", err |-> "ValueError", state |-> NoState,
                         S |-> S, tags |-> tags]]
            /\ obj' = obj
       ELSE /\ obj' = [obj EXCEPT ![o] =
                        PERMBU_fields(S, tags, y_hat, y_insample, y_hat_insample,
                                      sigmah, num_samples, seed)]
            /\ ret' = ret
    /\ UNCHANGED <<ncalls, left, res, np_random>>

\* the number of elements of row strictly before position j in the stable
\* ascending order
Before(row, j) ==
    Cardinality({ k \in 1..Len(row) : row[k] < row[j] \/ (row[k] = row[j] /\ k < j) })

\* array.argsort(axis=1) on one row: 0-based positions in ascending order of
\* value (arrays this short are insertion-sorted, which keeps ties in order)
ArgSort(row) ==
    Arr([r \in 1..Len(row) |-> (CHOOSE j \in 1..Len(row) : Before(row, j) = r - 1) - 1])

\* PERMBU._obtain_ranks: ranks[i_row, temp[i_row,:]] = a_range
obtain_ranks(array) ==
    Arr([i_row \in 1..Rows(array) |->
        LET temp == ArgSort(array[i_row])
        IN Arr([j \in 1..Len(temp) |-> (CHOOSE r \in 1..Len(temp) : temp[r] = j - 1) - 1])])

\* M.flatten()
RECURSIVE Flatten(_)
Flatten(M) == IF Len(M) = 0 THEN <<>> ELSE M[1] \o Flatten(Tail(M))

\* PERMBU._permutate_samples on samples [series, samples] and permutations
\* [series, columns]: flat indexing, then reshape to the shape of permutations
permutate_samples(samples, permutations) ==
    LET n_rows == Rows(permutations)
        n_cols == Cols(permutations)
        permutate_idxs == Flatten(Arr([i \in 1..n_rows |->
                            Arr([j \in 1..n_cols |-> permutations[i][j] + (i - 1) * n_cols])]))
        flat == Flatten(samples)
    IN IF \E q \in 1..Len(permutate_idxs) : permutate_idxs[q] >= Len(flat)
       THEN [err |-> "IndexError"]
       ELSE [err |-> "none",
             value |-> Arr([i \in 1..n_rows |-> Arr([j \in 1..n_cols |->
                          flat[permutate_idxs[(i - 1) * n_cols + j] + 1]])])]

\* prediction_samples[:, t, :]
AtStep(prediction_samples, t) ==
    Arr([i \in 1..Len(prediction_samples) |-> prediction_samples[i][t]])

\* PERMBU._permutate_predictions on prediction_samples [series, horizon, samples]
permutate_predictions(prediction_samples, permutations) ==
    LET n_horizon == Cols(prediction_samples)
        n == IF n_horizon = 0 THEN 0 ELSE Len(prediction_samples[1][1])
        steps == Arr([t \in 1..n_horizon |->
                    permutate_samples(AtStep(prediction_samples, t), permutations)])
    IN IF \E t \in 1..n_horizon : steps[t].err # "none" THEN [err |-> "IndexError"]
       ELSE IF n_horizon > 0 /\ Cols(permutations) # n /\ Cols(permutations) # 1
       THEN [err |-> "ValueError"]      \* the slice assignment cannot broadcast
       ELSE [err |-> "none",
             value |-> Arr([i \in 1..Len(prediction_samples) |-> Arr([t \in 1..n_horizon |->
                          Arr([j \in 1..n |-> steps[t].value[i][BIdx(j, Cols(permutations))]])])])]

\* PERMBU._nonzero_indexes_by_row(S.T): per bottom series, the 0-based rows of S
\* that hold it, ascending
nonzero_indexes_by_row(S) ==
    Arr([b \in 1..Cols(S) |-> SortedSeq({ i - 1 : i \in { r \in 1..Rows(S) : S[r][b] # 0 } })])

\* the ascending sequence of a finite set of pairs, first component first
RECURSIVE SortedPairs(_)
SortedPairs(X) ==
    IF X = {} THEN <<>>
    ELSE LET m == CHOOSE x \in X : \A y \in X :
                    x[1] < y[1] \/ (x[1] = y[1] /\ x[2] <= y[2])
         IN <<m>> \o SortedPairs(X \ {m})

\* np.unique(hier_links[:, level_idx:level_idx+2], axis=0), level_idx 0-based
ChildrenLinks(hier_links, level_idx) ==
    SortedPairs({ <<hier_links[b][level_idx + 1], hier_links[b][level_idx + 2]>> :
                    b \in 1..Len(hier_links) })

\* np.unique(children_links[:, col])
UniqueColumn(children_links, col) ==
    SortedSeq({ children_links[l][col] : l \in 1..Len(children_links) })

\* OneHotEncoder.fit_transform(children_links).T[:len(parent_idxs), :]: one row
\* per distinct parent, one column per link
Aggregation(children_links, parent_idxs) ==
    Arr([a \in 1..Len(parent_idxs) |-> Arr([l \in 1..Len(children_links) |->
        IF children_links[l][1] = parent_idxs[a] THEN 1 ELSE 0])])

\* np.einsum('ab,bhs->ahs', Agg, childrenum_samples)
Einsum(Agg, childrenum_samples) ==
    Arr([a \in 1..Rows(Agg) |-> Arr([t \in 1..Cols(childrenum_samples) |->
        Arr([j \in 1..Len(childrenum_samples[1][t]) |->
            SumSeq(Arr([b \in 1..Cols(Agg) |-> Agg[a][b] * childrenum_samples[b][t][j]]))])])])

\* one np.random.permutation(np.arange(num_samples)) per parent, drawn in turn
\* from the process-wide generator in state g
RandomPermutations(g, parents, num_samples) ==
    Arr([a \in 1..parents |->
        Permutation(RngAfter(g, (a - 1) * PermutationDraws(num_samples)), num_samples)])

\* array[idxs] for a sequence idxs of 0-based row indexes
TakeRows(array, idxs) == Arr([c \in 1..Len(idxs) |-> array[idxs[c] + 1]])

\* rec_samples[parent_idxs,:,:] = parent_samples
Overwrite(rec_samples, parent_idxs, parent_samples) ==
    Arr([i \in 1..Len(rec_samples) |->
        IF \E a \in 1..Len(parent_idxs) : parent_idxs[a] = i - 1
        THEN parent_samples[CHOOSE a \in 1..Len(parent_idxs) : parent_idxs[a] = i - 1]
        ELSE rec_samples[i]])

\* some index of idxs is out of the bounds of an array of len rows
OutOfBounds(idxs, len) == \E c \in 1..Len(idxs) : idxs[c] >= len

\* an exception e that ends the loop over the levels
LoopRaise(e, g, trace) == [err |-> e, g |-> g, trace |-> trace]

(* The loop of PERMBU.get_samples over level_idx (0-based, downwards).  cx holds
   hier_links, rank_permutations and num_samples; rec_samples is the running
   tensor, g the state of the process-wide generator, trace the locals of the
   passes made so far, pass the locals of the current pass. *)
RECURSIVE PERMBU_levels(_, _, _, _, _)

\* rec_samples[parent_idxs,:,:] = parent_samples, then the next level
PERMBU_overwrite(cx, rec_samples, g, trace, pass, parent_samples) ==
    IF OutOfBounds(pass.parent_idxs, Len(rec_samples)) THEN LoopRaise("IndexError", g, trace)
    ELSE PERMBU_levels(cx, pass.level_idx - 1,
                       Overwrite(rec_samples, pass.parent_idxs, parent_samples.value), g, trace)

\* the random permutation of the parents' samples
PERMBU_shuffle(cx, rec_samples, g, trace, pass) ==
    PERMBU_overwrite(cx, rec_samples,
        RngAfter(g, Len(pass.summed) * PermutationDraws(cx.num_samples)),
        Append(trace, pass), pass,
        permutate_predictions(pass.summed, pass.random_permutation))

\* the bottom-up aggregation of the permuted children
PERMBU_aggregate(cx, rec_samples, g, trace, links, children_permutations, childrenum_samples) ==
    IF childrenum_samples.err # "none" THEN LoopRaise(childrenum_samples.err, g, trace)
    ELSE IF Len(links.children_links) # Len(links.children_idxs)
    THEN LoopRaise("ValueError", g, trace)                     \* einsum operands
    ELSE PERMBU_shuffle(cx, rec_samples, g, trace,
            [level_idx |-> links.level_idx, children_links |-> links.children_links,
             children_idxs |-> links.children_idxs, parent_idxs |-> links.parent_idxs,
             children_permutations |-> children_permutations,
             childrenum_samples |-> childrenum_samples.value,
             summed |-> Einsum(Aggregation(links.children_links, links.parent_idxs),
                               childrenum_samples.value),
             random_permutation |->
                 RandomPermutations(g, Len(links.parent_idxs), cx.num_samples)])

\* the permutation of the children's samples by their ranks
PERMBU_children(cx, rec_samples, g, trace, links) ==
    IF \/ OutOfBounds(links.children_idxs, Rows(cx.rank_permutations))
       \/ OutOfBounds(links.children_idxs, Len(rec_samples))
    THEN LoopRaise("IndexError", g, trace)
    ELSE PERMBU_aggregate(cx, rec_samples, g, trace, links,
            TakeRows(cx.rank_permutations, links.children_idxs),
            permutate_predictions(TakeRows(rec_samples, links.children_idxs),
                                  TakeRows(cx.rank_permutations, links.children_idxs)))

\* the parent/children links of a level
PERMBU_links(cx, rec_samples, g, trace, level_idx, children_links) ==
    PERMBU_children(cx, rec_samples, g, trace,
        [level_idx |-> level_idx, children_links |-> children_links,
         children_idxs |-> UniqueColumn(children_links, 2),
         parent_idxs |-> UniqueColumn(children_links, 1)])

PERMBU_levels(cx, level_idx, rec_samples, g, trace) ==
    IF level_idx < 0
    THEN [err |-> "none", samples |-> rec_samples, g |-> g, trace |-> trace]
    ELSE PERMBU_links(cx, rec_samples, g, trace, level_idx,
                      ChildrenLinks(cx.hier_links, level_idx))

\* state.normal(loc=m, scale=s, size=num_samples) for m, s in
\* zip(y_hat.flatten(), sigmah.flatten()), reshaped to the shape of y_hat
BaseSamples(locs, scales, n_series, n_horizon, num_samples, state) ==
    IF Min(Len(locs), Len(scales)) # n_series * n_horizon
    THEN [err |-> "ValueError",                                 \* reshape
          state |-> RngAfter(state, Min(Len(locs), Len(scales)) * num_samples)]
    ELSE [err |-> "none",
          state |-> RngAfter(state, n_series * n_horizon * num_samples),
          value |-> Arr([i \in 1..n_series |-> Arr([t \in 1..n_horizon |->
                        Normal(RngAfter(state, ((i - 1) * n_horizon + t - 1) * num_samples),
                               locs[(i - 1) * n_horizon + t], scales[(i - 1) * n_horizon + t],
                               num_samples)])])]

\* what PERMBU.get_samples returns once the loop is over
PERMBU_return(num_samples, residuals, rank_permutations, base, done) ==
    IF done.err # "none"
    THEN [op |-> "get_samples", err |-> done.err, state |-> base.state, g |-> done.g,
          n |-> num_samples]
    ELSE [op |-> "get_samples", err |-> "none", n |-> num_samples, state |-> base.state,
          g |-> done.g, residuals |-> residuals, rank_permutations |-> rank_permutations,
          base_samples |-> base.value, trace |-> done.trace, samples |-> done.samples]

\* the bottom-up traversal of the hierarchy
PERMBU_traverse(num_samples, g, residuals, rank_permutations, base, hier_links) ==
    IF base.err # "none"
    THEN [op |-> "get_samples", err |-> base.err, n |-> num_samples,
          state |-> base.state, g |-> g]
    ELSE IF \E b \in 1..Len(hier_links) : Len(hier_links[b]) # Len(hier_links[1])
    THEN [op |-> "get_samples", err |-> "ValueError", n |-> num_samples,
          state |-> base.state, g |-> g]                           \* np.vstack
    ELSE PERMBU_return(num_samples, residuals, rank_permutations, base,
            PERMBU_levels([hier_links |-> hier_links, rank_permutations |-> rank_permutations,
                           num_samples |-> num_samples],
                          Len(hier_links[1]) - 2, base.value, g, <<>>))

\* the ranks of the residuals and the independent base samples
PERMBU_sample(self, num_samples, g, residuals) ==
    PERMBU_traverse(num_samples, g, residuals, obtain_ranks(residuals),
        BaseSamples(Flatten(self.y_hat), Flatten(self.sigmah), Rows(self.y_hat),
                    Cols(self.y_hat), num_samples, RandomState(self.seed)),
        nonzero_indexes_by_row(self.S))

\* if num_samples is None: num_samples = residuals.shape[1], placed after the
\* ranks are taken
PERMBU_default(self, num_samples, g, residuals) ==
    PERMBU_sample(self, IF num_samples = None THEN Cols(residuals) ELSE num_samples,
                  g, residuals)

\* the expansion of the residuals to num_samples columns
PERMBU_expand(self, num_samples, g, residuals) ==
    IF num_samples = None
    THEN [op |-> "get_samples", err |-> "TypeError", n |-> num_samples,
          state |-> NoState, g |-> g]             \* None > residuals.shape[1]
    ELSE IF num_samples <= Cols(residuals) THEN PERMBU_default(self, num_samples, g, residuals)
    ELSE IF Cols(residuals) = 0
    THEN [op |-> "get_samples", err |-> "ValueError", n |-> num_samples,
          state |-> NoState, g |-> g]             \* choice from an empty range
    ELSE PERMBU_default(self, num_samples, RngAfter(g, num_samples),
                        TakeCols(residuals, Choice(g, Cols(residuals), num_samples)))

\* PERMBU.get_samples, the process-wide generator being in state g
PERMBU_get_samples(self, num_samples, g) ==
    PERMBU_expand(self, num_samples, g,
                  DropNaNColumns(MatSub(self.y_insample, self.y_hat_insample)))

\* a call op on PERMBU instance o ends: got is what get_samples returned or
\* raised in it, written the result mapping the call leaves when nothing is raised
PERMBU_Deliver(o, op, got, written) ==
    /\ ret' = [ret EXCEPT ![o] =
                IF op = "get_samples" THEN got
                ELSE [op |-> op, err |-> got.err, state |-> got.state]]
    /\ res' = IF got.err = "none" THEN [res EXCEPT ![o] = written] ELSE res
    /\ left' = [left EXCEPT ![o] = got.state]
    /\ np_random' = got.g
    /\ ncalls' = [ncalls EXCEPT ![o] = @ + 1]
    /\ obj' = obj

PERMBU_GetSamples(o, num_samples) ==
    /\ obj[o].cls = "PERMBU"
    /\ ncalls[o] < MaxCalls
    /\ PERMBU_Deliver(o, "get_samples",
                      PERMBU_get_samples(obj[o], num_samples, np_random), res[o])

\* the end of PERMBU.get_prediction_levels
PERMBU_Levels(o, level, got) ==
    PERMBU_Deliver(o, "get_prediction_levels", got,
                   IF got.err = "none" THEN PredictionLevels(res[o], got.samples, level)
                   ELSE res[o])

\* PERMBU.get_prediction_levels
PERMBU_GetPredictionLevels(o, level) ==
    /\ obj[o].cls = "PERMBU"
    /\ ncalls[o] < MaxCalls
    /\ PERMBU_Levels(o, level, PERMBU_get_samples(obj[o], obj[o].num_samples, np_random))

\* the end of PERMBU.get_prediction_quantiles
PERMBU_Quantiles(o, quantiles, got) ==
    PERMBU_Deliver(o, "get_prediction_quantiles", got,
                   IF got.err = "none" THEN PredictionQuantiles(res[o], got.samples, quantiles)
                   ELSE res[o])

\* PERMBU.get_prediction_quantiles
PERMBU_GetPredictionQuantiles(o, quantiles) ==
    /\ obj[o].cls = "PERMBU"
    /\ ncalls[o] < MaxCalls
    /\ PERMBU_Quantiles(o, quantiles,
                        PERMBU_get_samples(obj[o], obj[o].num_samples, np_random))

\* one PERMBU instance and its caller; the process-wide generator is in a state
\* the caller does not choose
InitPERMBU == np_random \in Seeds /\ InitInstances({1})

PERMBUNew ==
    /\ ~Built(1)
    /\ ret[1].op = "none"
    /\ \E H \in Hierarchies, h \in Horizons, seed \in Seeds :
        \E y_insample \in Insamples(Rows(H.S), {0}) :
            PERMBU_init(1, H.S, H.tags, Forecasts(Rows(H.S), h), y_insample,
                        Fitted(y_insample), Sigmas(Rows(H.S), h), MaxSamples, seed)
PERMBUSamples == \E n \in SampleCounts : PERMBU_GetSamples(1, n)
PERMBULevels == \E level \in LevelSets : PERMBU_GetPredictionLevels(1, level)
PERMBUQuantiles == \E q \in QuantileSets : PERMBU_GetPredictionQuantiles(1, q)

NextPERMBU ==
    \/ PERMBUNew
    \/ PERMBUSamples
    \/ PERMBULevels
    \/ PERMBUQuantiles

SpecPERMBU == InitPERMBU /\ [][NextPERMBU]_vars

---------------------------------------------------------------------------
(* Normality *)

\* np.sqrt on the integers
IntSqrt(x) == IF x < 0 THEN NaN ELSE CHOOSE r \in 0..x : r * r <= x /\ (r + 1) * (r + 1) > x

\* utils.cov2corr: W divided by the outer product of its standard deviations
cov2corr(W) ==
    Arr([i \in 1..Rows(W) |-> Arr([j \in 1..Cols(W) |->
        IF IntSqrt(W[i][i]) * IntSqrt(W[j][j]) = 0 THEN NaN
        ELSE W[i][j] \div (IntSqrt(W[i][i]) * IntSqrt(W[j][j]))])])

\* np.diag(sigma) @ R1 @ np.diag(sigma).T for the column t of sigmah
Reinflate(R1, sigmah, t) ==
    Arr([i \in 1..Rows(R1) |-> Arr([j \in 1..Cols(R1) |->
        sigmah[i][t] * R1[i][j] * sigmah[j][t]])])

\* self.cov_rec: SP @ Wh[t] @ SP.T for every horizon step t
CovRec(SP, R1, sigmah) ==
    Arr([t \in 1..Cols(sigmah) |->
        MatMul(MatMul(SP, Reinflate(R1, sigmah, t)), Transpose(SP))])

\* self.sigmah_rec: the square roots of the diagonals of cov_rec, side by side
SigmahRec(cov_rec) ==
    Arr([i \in 1..(IF Len(cov_rec) = 0 THEN 0 ELSE Rows(cov_rec[1])) |->
        Arr([t \in 1..Len(cov_rec) |-> IntSqrt(cov_rec[t][i][i])])])

\* the fields Normality.__init__ sets once SP and cov_rec are computed
Normality_fields(S, P, y_hat, sigmah, W, seed, SP, cov_rec) ==
    [cls |-> "Normality", S |-> S, P |-> P, y_hat |-> y_hat, SP |-> SP, W |-> W,
     sigmah |-> sigmah, seed |-> seed, cov_rec |-> cov_rec,
     sigmah_rec |-> SigmahRec(cov_rec)]

\* Normality.__init__: the matrix products raise on operands that do not fit;
\* y_hat takes no part in them
Normality_init(o, S, P, y_hat, sigmah, W, seed) ==
    /\ ~Built(o)
    /\ IF \/ Cols(S) # Rows(P)                     \* S @ P
          \/ Rows(sigmah) # Rows(W)                \* np.diag(sigma) @ R1
          \/ Rows(W) # Cols(W)
          \/ Cols(P) # Rows(sigmah)                \* SP @ W
          \/ Cols(sigmah) = 0                      \* np.hstack of nothing
       THEN /\ ret' = [ret EXCEPT ![o] = Raise("__init__", "ValueError", NoState)]
            /\ obj' = obj
       ELSE /\ obj' = [obj EXCEPT ![o] =
                        Normality_fields(S, P, y_hat, sigmah, W, seed, MatMul(S, P),
                                         CovRec(MatMul(S, P), cov2corr(W), sigmah))]
            /\ ret' = ret
    /\ UNCHANGED <<ncalls, left, res, np_random>>

\* as Normality_state, with the generator kept from the previous call
Normality_state_kept(self, kept) == IF kept = NoState THEN RandomState(self.seed) ELSE kept

\* state = np.random.RandomState(self.seed), kept being the state the previous
\* call on the instance left its generator in
Normality_state(self, kept) == RandomState(self.seed)

\* self.SP @ self.y_hat[:,t]
MeanAt(SP, y_hat, t) ==
    Arr([i \in 1..Rows(SP) |-> SumSeq(Arr([b \in 1..Cols(SP) |-> SP[i][b] * y_hat[b][t]]))])

\* state.multivariate_normal(mean, cov, size=num_samples) from generator state s:
\* num_samples rows of len(mean) standard normal draws, taken row by row, each
\* scaled by the standard deviation of its series and moved by its mean
MultivariateNormal(s, mean, cov, num_samples) ==
    Arr([k \in 1..num_samples |-> Arr([i \in 1..Len(mean) |->
        mean[i] + IntSqrt(cov[i][i]) * StdNormal(RngAfter(s, (k - 1) * Len(mean) + i))])])

\* the samples of Normality.get_samples, [N, H, samples], drawn from state on
Normality_draw(self, num_samples, state) ==
    LET partial_samples == Arr([t \in 1..Cols(self.y_hat) |->
            MultivariateNormal(RngAfter(state, (t - 1) * num_samples * Rows(self.SP)),
                               MeanAt(self.SP, self.y_hat, t), self.cov_rec[t], num_samples)])
    IN Arr([i \in 1..Rows(self.y_hat) |-> Arr([t \in 1..Cols(self.y_hat) |->
           Arr([k \in 1..num_samples |-> partial_samples[t][k][BIdx(i, Rows(self.SP))]])])])

\* Normality.get_samples, its generator starting in state
Normality_sample(self, num_samples, state) ==
    IF Cols(self.y_hat) > 0 /\ Cols(self.SP) # Rows(self.y_hat)
    THEN [op |-> "get_samples", err |-> "ValueError", n |-> num_samples,
          start |-> state, state |-> state]                       \* SP @ y_hat[:,t]
    ELSE IF Cols(self.y_hat) > 0 /\ Rows(self.SP) # Rows(self.y_hat) /\ Rows(self.SP) # 1
    THEN [op |-> "get_samples", err |-> "ValueError", n |-> num_samples, start |-> state,
          state |-> RngAfter(state, num_samples * Rows(self.SP))]  \* samples[:,:,t] = ...
    ELSE IF Cols(self.y_hat) > Len(self.cov_rec)
    THEN [op |-> "get_samples", err |-> "IndexError", n |-> num_samples, start |-> state,
          state |-> RngAfter(state, Len(self.cov_rec) * num_samples * Rows(self.SP))]
    ELSE [op |-> "get_samples", err |-> "none", n |-> num_samples, start |-> state,
          state |-> RngAfter(state, Cols(self.y_hat) * num_samples * Rows(self.SP)),
          samples |-> Normality_draw(self, num_samples, state)]

\* Normality.get_samples
Normality_get_samples(self, num_samples, kept) ==
    Normality_sample(self, num_samples, Normality_state(self, kept))

Normality_GetSamples(o, num_samples) ==
    /\ obj[o].cls = "Normality"
    /\ ncalls[o] < MaxCalls
    /\ ret' = [ret EXCEPT ![o] = Normality_get_samples(obj[o], num_samples, left[o])]
    /\ left' = [left EXCEPT ![o] = ret'[o].state]
    /\ ncalls' = [ncalls EXCEPT ![o] = @ + 1]
    /\ UNCHANGED <<obj, res, np_random>>

\* scipy.stats.norm.ppf(num/den), times 100
NormPpf(num, den) ==
    LET p == (1000 * num) \div den
    IN CASE p = 100 -> 0 - 128 [] p = 500 -> 0 [] p = 900 -> 128 [] p = 975 -> 196
         [] OTHER -> (p - 500) \div 3

\* mean + offset / 100 on the caller's mean forecasts
Affine(mean, offset) == [mean |-> mean, plus |-> offset]

\* z * self.sigmah_rec, times 100
Scaled(z, sigmah_rec) ==
    Arr([i \in 1..Rows(sigmah_rec) |-> Arr([t \in 1..Cols(sigmah_rec) |-> z * sigmah_rec[i][t]])])

\* Normality.get_prediction_levels: closed form, no samples drawn
Normality_GetPredictionLevels(o, level) ==
    /\ obj[o].cls = "Normality"
    /\ res' = [res EXCEPT ![o] =
                [key \in { <<"lo", level[k]>> : k \in 1..Len(level) }
                         \cup { <<"hi", level[k]>> : k \in 1..Len(level) } |->
                    Affine(res[o][<<"mean", 0>>],
                           Scaled((IF key[1] = "lo" THEN 0 - 1 ELSE 1) * NormPpf(100 + key[2], 200),
                                  obj[o].sigmah_rec))]
                @@ (<<"sigmah", 0>> :> obj[o].sigmah_rec) @@ res[o]]
    /\ ret' = [ret EXCEPT ![o] = [op |-> "get_prediction_levels", err |-> "none", state |-> NoState]]
    /\ UNCHANGED <<obj, ncalls, left, np_random>>

\* Normality.get_prediction_quantiles: closed form, no samples drawn
Normality_GetPredictionQuantiles(o, quantiles) ==
    /\ obj[o].cls = "Normality"
    /\ res' = [res EXCEPT ![o] =
                (<<"quantiles", 0>> :>
                    Affine(res[o][<<"mean", 0>>],
                           Arr([i \in 1..Rows(obj[o].sigmah_rec) |->
                               Arr([t \in 1..Cols(obj[o].sigmah_rec) |->
                                   Arr([q \in 1..Len(quantiles) |->
                                       NormPpf(quantiles[q], 100) * obj[o].sigmah_rec[i][t]])])])))
                @@ (<<"sigmah", 0>> :> obj[o].sigmah_rec) @@ res[o]]
    /\ ret' = [ret EXCEPT ![o] = [op |-> "get_prediction_quantiles", err |-> "none", state |-> NoState]]
    /\ UNCHANGED <<obj, ncalls, left, np_random>>

\* covariance matrices: the identity, and one with unequal variances
Covariances(n) ==
    { Arr([i \in 1..n |-> Arr([j \in 1..n |-> IF i = j THEN 1 ELSE 0])]),
      Arr([i \in 1..n |-> Arr([j \in 1..n |-> IF i # j THEN 0 ELSE IF i % 2 = 1 THEN 4 ELSE 1])]) }

\* one Normality instance and its caller
InitNormality == np_random = 0 /\ InitInstances({1})

NormalityNew ==
    /\ ~Built(1)
    /\ \E H \in {Flat, Deep}, h \in Horizons, seed \in Seeds :
        \E P \in Projections(H.S), W \in Covariances(Rows(H.S)) :
            Normality_init(1, H.S, P, Forecasts(Rows(H.S), h), Sigmas(Rows(H.S), h), W, seed)
NormalitySamples == \E n \in SampleCounts : Normality_GetSamples(1, n)
NormalityLevels == \E level \in LevelSets : Normality_GetPredictionLevels(1, level)
NormalityQuantiles == \E q \in QuantileSets : Normality_GetPredictionQuantiles(1, q)

NextNormality ==
    \/ NormalityNew
    \/ NormalitySamples
    \/ NormalityLevels
    \/ NormalityQuantiles

SpecNormality == InitNormality /\ [][NextNormality]_vars

---------------------------------------------------------------------------
(* Two samplers in one process *)

Pair == {1, 2}

\* the in-sample actuals of the two samplers: three columns
PairInsamples(n) == { y \in Insamples(n, {0}) : Cols(y) = 3 }

\* two instances and their callers
InitSamplers == np_random = 0 /\ InitInstances(Pair)

SamplersNormality ==
    \E o \in Pair, seed \in Seeds, P \in Projections(Flat.S) :
        Normality_init(o, Flat.S, P, Forecasts(Rows(Flat.S), 1), Sigmas(Rows(Flat.S), 1),
                       CHOOSE W \in Covariances(Rows(Flat.S)) : W[1][1] = 1, seed)
SamplersBootstrap ==
    \E o \in Pair, seed \in Seeds, y_insample \in PairInsamples(Rows(Flat.S)) :
        Bootstrap_init(o, Flat.S, BottomUpP(Flat.S), Forecasts(Rows(Flat.S), 1), y_insample,
                       Fitted(y_insample), MaxSamples, seed)
SamplersPERMBU ==
    \E o \in Pair, seed \in Seeds, y_insample \in PairInsamples(Rows(Flat.S)) :
        PERMBU_init(o, Flat.S, Flat.tags, Forecasts(Rows(Flat.S), 1), y_insample,
                    Fitted(y_insample), Sigmas(Rows(Flat.S), 1), MaxSamples, seed)
SamplersNormalitySamples == \E o \in Pair, n \in SampleCounts : Normality_GetSamples(o, n)
SamplersBootstrapSamples == \E o \in Pair, n \in SampleCounts : Bootstrap_GetSamples(o, n)
SamplersPERMBUSamples == \E o \in Pair, n \in SampleCounts : PERMBU_GetSamples(o, n)

NextSamplers ==
    \/ SamplersNormality
    \/ SamplersBootstrap
    \/ SamplersPERMBU
    \/ SamplersNormalitySamples
    \/ SamplersBootstrapSamples
    \/ SamplersPERMBUSamples

SpecSamplers == InitSamplers /\ [][NextSamplers]_vars

---------------------------------------------------------------------------
(* Constructors given arrays of any shape *)

\* arrays of the shapes the hierarchy asks for, and of other shapes
ShapesP == {BottomUpP(Flat.S), Transpose(BottomUpP(Flat.S))}
ShapesForecasts(h) == {Forecasts(Rows(Flat.S), h), Forecasts(Cols(Flat.S), h)}
ShapesSigmas(h) == {Sigmas(Rows(Flat.S), h), Sigmas(Cols(Flat.S), h), Sigmas(Rows(Flat.S), h + 1)}
ShapesCovariances == Covariances(Rows(Flat.S)) \cup Covariances(Cols(Flat.S))

\* one instance and its caller
InitShapes == np_random = 0 /\ InitInstances({1})

ShapesNormality ==
    /\ ret[1].op = "none"
    /\ \E h \in Horizons, P \in ShapesP, W \in ShapesCovariances :
        \E y_hat \in ShapesForecasts(h), sigmah \in ShapesSigmas(h) :
            Normality_init(1, Flat.S, P, y_hat, sigmah, W, 0)
ShapesBootstrap ==
    /\ ret[1].op = "none"
    /\ \E h \in Horizons, P \in ShapesP, y_insample \in PairInsamples(Rows(Flat.S)) :
        \E y_hat \in ShapesForecasts(h) :
            Bootstrap_init(1, Flat.S, P, y_hat, y_insample, Fitted(y_insample), MaxSamples, 0)
ShapesPERMBU ==
    /\ ret[1].op = "none"
    /\ \E h \in Horizons, y_insample \in PairInsamples(Rows(Flat.S)) :
        \E y_hat \in ShapesForecasts(h), sigmah \in ShapesSigmas(h) :
            PERMBU_init(1, Flat.S, Flat.tags, y_hat, y_insample, Fitted(y_insample),
                        sigmah, MaxSamples, 0)

NextShapes ==
    \/ ShapesNormality
    \/ ShapesBootstrap
    \/ ShapesPERMBU
    \/ NormalitySamples
    \/ BootstrapSamples
    \/ PERMBUSamples

SpecShapes == InitShapes /\ [][NextShapes]_vars

---------------------------------------------------------------------------
(* PERMBU built without a sample count *)

\* one PERMBU instance and its caller
InitDefault == np_random \in Seeds /\ InitInstances({1})

\* PERMBU.__init__ with num_samples left at its default
DefaultNew ==
    /\ ~Built(1)
    /\ \E H \in {Flat, Deep}, h \in Horizons, seed \in Seeds :
        \E y_insample \in Insamples(Rows(H.S), {0}) :
            PERMBU_init(1, H.S, H.tags, Forecasts(Rows(H.S), h), y_insample,
                        Fitted(y_insample), Sigmas(Rows(H.S), h), None, seed)
\* get_samples() and get_samples(n)
DefaultSamples == \E n \in SampleCounts \cup {None} : PERMBU_GetSamples(1, n)

NextDefault ==
    \/ DefaultNew
    \/ DefaultSamples
    \/ PERMBULevels
    \/ PERMBUQuantiles

SpecDefault == InitDefault /\ [][NextDefault]_vars

---------------------------------------------------------------------------
(* Claims about Bootstrap *)

\* the columns of the in-sample arrays of instance o in which no series has a
\* missing value, in order
CompleteOf(o) ==
    SortedSeq({ j \in 1..Cols(obj[o].y_insample) :
                  \A i \in 1..Rows(obj[o].y_insample) :
                      /\ obj[o].y_insample[i][j] # NaN
                      /\ obj[o].y_hat_insample[i][j] # NaN })
\* the residuals of instance o in its complete columns
ResidualsOf(o) ==
    LET complete == CompleteOf(o)
    IN Arr([i \in 1..Rows(obj[o].y_insample) |-> Arr([k \in 1..Len(complete) |->
            obj[o].y_insample[i][complete[k]] - obj[o].y_hat_insample[i][complete[k]]])])

\* the row of S that is bottom series b
BottomRow(S, b) == Rows(S) - Cols(S) + b

\* sample k of a tensor is coherent under S
CoherentSample(S, samples, k) ==
    \A i \in 1..Rows(S) : \A t \in 1..Len(samples[i]) :
        samples[i][t][k] =
            SumSeq(Arr([b \in 1..Cols(S) |-> S[i][b] * samples[BottomRow(S, b)][t][k]]))

\* C5: with T > h complete residual columns, each of the n paths of
\* Bootstrap.get_samples(n) is S*P*(y_hat + R[:, i:i+h]) for a start index
\* 0 <= i < T-h, has exactly h columns, and is coherent.
C5_BootstrapPaths ==
    \A o \in DOMAIN obj :
        (obj[o].cls = "Bootstrap" /\ ret[o].op = "get_samples"
            /\ Len(CompleteOf(o)) > Cols(obj[o].y_hat)) =>
        LET self == obj[o]
            T == Len(CompleteOf(o))
            h == Cols(self.y_hat)
            SP == MatMul(self.S, self.P)
            R == ResidualsOf(o)
        IN /\ ret[o].err = "none"
           /\ Len(ret[o].samples) = Rows(self.S)
           /\ \A i \in 1..Rows(self.S) :
                /\ Len(ret[o].samples[i]) = h
                /\ \A t \in 1..h : Len(ret[o].samples[i][t]) = ret[o].n
           /\ \A k \in 1..ret[o].n :
                /\ \E idx \in 0..(T - h - 1) :
                     \A i \in 1..Rows(self.S) : \A t \in 1..h :
                        ret[o].samples[i][t][k] =
                            SumSeq(Arr([b \in 1..Rows(self.y_hat) |->
                                SP[i][b] * (self.y_hat[b][t] + R[b][idx + t])]))
                /\ CoherentSample(self.S, ret[o].samples, k)

\* two different blocks were drawn, from residuals that lost a column
C5_Witness ==
    \E o \in DOMAIN obj :
        /\ obj[o].cls = "Bootstrap" /\ ret[o].op = "get_samples" /\ ret[o].err = "none"
        /\ ret[o].n >= 2
        /\ ret[o].samples_idx[1] # ret[o].samples_idx[2]
        /\ ret[o].samples[1][1][1] # ret[o].samples[1][1][2]
        /\ Len(CompleteOf(o)) < Cols(obj[o].y_insample)
        /\ Len(CompleteOf(o)) > Cols(obj[o].y_hat)

\* C6: with at most h complete residual columns every Bootstrap call raises
\* and no key is written into the result mapping.
C6_BootstrapInsufficient ==
    \A o \in DOMAIN obj :
        (obj[o].cls = "Bootstrap" /\ Len(CompleteOf(o)) <= Cols(obj[o].y_hat)) =>
            /\ ret[o].op # "none" => ret[o].err # "none"
            /\ res[o] = CallerRes

\* get_prediction_levels raised on residuals exactly as long as the horizon
C6_Witness ==
    \E o \in DOMAIN obj :
        /\ obj[o].cls = "Bootstrap"
        /\ Len(CompleteOf(o)) = Cols(obj[o].y_hat)
        /\ Cols(obj[o].y_insample) > Len(CompleteOf(o))
        /\ ret[o].op = "get_prediction_levels"
        /\ ret[o].err = "ValueError"

---------------------------------------------------------------------------
(* Claims about PERMBU *)

\* C1: every sample of the tensor returned by PERMBU.get_samples is coherent:
\* each aggregate row equals S applied to the bottom rows of the same sample.
C1_PERMBUCoherent ==
    \A o \in DOMAIN obj :
        (obj[o].cls = "PERMBU" /\ ret[o].op = "get_samples" /\ ret[o].err = "none") =>
            \A k \in 1..ret[o].n : CoherentSample(obj[o].S, ret[o].samples, k)

\* C8: a PERMBU constructor given a pair the validator rejects raises before
\* any field is set: no instance, no call and no written key exists for it, and
\* every PERMBU instance there is holds a strict hierarchy.
C8_PERMBURejection ==
    \A o \in DOMAIN obj :
        /\ obj[o].cls = "PERMBU" => is_strictly_hierarchical(obj[o].S, obj[o].tags)
        /\ ret[o].op = "__init__" =>
            /\ ~is_strictly_hierarchical(ret[o].S, ret[o].tags)
            /\ ret[o].err = "ValueError"
            /\ obj[o] = Unbuilt
            /\ ncalls[o] = 0
            /\ res[o] = CallerRes
        /\ obj[o] = Unbuilt => (ret[o].op \in {"none", "__init__"} /\ ncalls[o] = 0)

\* the constructor raised on the overlapping groups
C8_Witness ==
    \E o \in DOMAIN obj :
        /\ ret[o].op = "__init__" /\ ret[o].err = "ValueError"
        /\ ret[o].S = Overlap.S
        /\ obj[o] = Unbuilt

\* C9: the rank array is, per series, the permutation of 0..n-1 that maps each
\* residual to its order-statistic index, and at every level and horizon step
\* the permuted samples of each child are ordered along the sample axis as the
\* residuals of that series are.
C9_PERMBURankOrder ==
    \A o \in DOMAIN obj :
        (obj[o].cls = "PERMBU" /\ ret[o].op = "get_samples" /\ ret[o].err = "none") =>
        LET residuals == ret[o].residuals
            ranks == ret[o].rank_permutations
            trace == ret[o].trace
        IN /\ \A i \in 1..Rows(residuals) :
                /\ { ranks[i][j] : j \in 1..ret[o].n } = 0..(ret[o].n - 1)
                /\ \A j, k \in 1..ret[o].n :
                     residuals[i][j] < residuals[i][k] => ranks[i][j] < ranks[i][k]
           /\ \A p \in 1..Len(trace) : \A c \in 1..Len(trace[p].children_idxs) :
                \A t \in 1..Cols(obj[o].y_hat) : \A j, k \in 1..ret[o].n :
                    residuals[trace[p].children_idxs[c] + 1][j]
                        < residuals[trace[p].children_idxs[c] + 1][k]
                    => trace[p].childrenum_samples[c][t][j]
                        <= trace[p].childrenum_samples[c][t][k]

\* the bottom series summed by row r (0-based) of S
Support(S, r) == { b \in 1..Cols(S) : S[r + 1][b] # 0 }

\* C10: at each level the sum built for a parent is the element-wise sum of the
\* rank-permuted samples of that parent's own children and of no other series.
C10_PERMBUAlignment ==
    \A o \in DOMAIN obj :
        (obj[o].cls = "PERMBU" /\ ret[o].op = "get_samples" /\ ret[o].err = "none") =>
        LET S == obj[o].S
            trace == ret[o].trace
        IN \A p \in 1..Len(trace) : \A a \in 1..Len(trace[p].parent_idxs) :
            \A t \in 1..Cols(obj[o].y_hat) : \A k \in 1..ret[o].n :
                trace[p].summed[a][t][k] =
                    SumSeq(Arr([c \in 1..Len(trace[p].children_idxs) |->
                        IF Support(S, trace[p].children_idxs[c])
                              \subseteq Support(S, trace[p].parent_idxs[a])
                        THEN trace[p].childrenum_samples[c][t][k] ELSE 0]))

---------------------------------------------------------------------------
(* Claims about Normality *)

---------------------------------------------------------------------------
(* Claims about the three samplers *)

\* the shape (series, horizon, samples) of a samples tensor
Shape3(samples) ==
    <<Len(samples),
      IF Len(samples) = 0 THEN 0 ELSE Len(samples[1]),
      IF Len(samples) = 0 \/ Len(samples[1]) = 0 THEN 0 ELSE Len(samples[1][1])>>

\* C2: for each of Normality, Bootstrap and PERMBU and for every n >= 1, below,
\* at or above the number of complete residual columns, get_samples(n) returns
\* a tensor of shape (series_count, horizon, n), the dimensions being y_hat's
\* (Bootstrap: given more complete residual columns than the horizon).
C2_Shape ==
    \A o \in DOMAIN obj :
        (/\ Built(o) /\ ret[o].op = "get_samples"
         /\ obj[o].cls = "Bootstrap" => Len(CompleteOf(o)) > Cols(obj[o].y_hat)
         /\ obj[o].cls = "PERMBU" => Len(CompleteOf(o)) >= 1) =>
            /\ ret[o].err = "none"
            /\ Shape3(ret[o].samples) = <<Rows(obj[o].y_hat), Cols(obj[o].y_hat), ret[o].n>>

\* C3: two instances built with identical inputs and seed and given the same
\* call return the same output, whatever was called on the other instance and
\* whatever state the process-wide generator is in.
C3_PrivateGenerator ==
    \A o1, o2 \in DOMAIN obj :
        (/\ o1 # o2 /\ Built(o1) /\ obj[o1] = obj[o2]
         /\ ret[o1].op = "get_samples" /\ ret[o2].op = "get_samples"
         /\ ret[o1].n = ret[o2].n
         /\ obj[o1].cls # "Bootstrap" => (ncalls[o1] = 1 /\ ncalls[o2] = 1)) =>
            /\ ret[o1].err = ret[o2].err
            /\ ret[o1].err = "none" => ret[o1].samples = ret[o2].samples

\* the shapes of the arrays of a sampler fit each other
Consistent(self) ==
    /\ Rows(self.y_hat) = Rows(self.S)
    /\ self.cls \in {"Normality", "Bootstrap"} =>
        Shape(self.P) = <<Cols(self.S), Rows(self.S)>>
    /\ self.cls \in {"Normality", "PERMBU"} => Shape(self.sigmah) = Shape(self.y_hat)
    /\ self.cls = "Normality" => Shape(self.W) = <<Rows(self.S), Rows(self.S)>>

\* C7: a constructor given arrays whose shapes do not fit raises: every sampler
\* instance there is holds arrays of consistent shapes.
C7_DimensionsChecked ==
    \A o \in DOMAIN obj : Built(o) => Consistent(obj[o])

\* C11: a PERMBU call whose num_samples is None, given at least one complete
\* residual column, does not raise, and get_samples returns a tensor with as
\* many samples as there are complete residual columns.
C11_PERMBUDefaultCount ==
    \A o \in DOMAIN obj :
        (/\ obj[o].cls = "PERMBU" /\ Len(CompleteOf(o)) >= 1
         /\ \/ ret[o].op = "get_samples" /\ ret[o].n = None
            \/ ret[o].op \in {"get_prediction_levels", "get_prediction_quantiles"}
                 /\ obj[o].num_samples = None) =>
            /\ ret[o].err = "none"
            /\ ret[o].op = "get_samples" =>
                Shape3(ret[o].samples) =
                    <<Rows(obj[o].y_hat), Cols(obj[o].y_hat), Len(CompleteOf(o))>>

====
